---- MODULE Spec2Model ----
(***************************************************************************)
(* Exhibition curation platform: the unified fetch facade (services/api),  *)
(* and the listing screen's aggregation controller (screens/HomeScreen).   *)
(*                                                                         *)
(* Strings that the code takes apart (tagged ids) are sequences of          *)
(* one-character strings; a native id produced by an upstream is one        *)
(* opaque token holding its decimal digits.                                 *)
(***************************************************************************)
EXTENDS Integers, Sequences, FiniteSets, TLC

\* ------------------------------------------------------------------ bounds

\* pages per source in the small upstream catalogues
MaxPages == 2
\* records on an AIC page in the small upstream catalogues
PerPage == 2
\* fetch operations (initial loads, load-more rounds) outstanding at once
MaxInFlight == 2
\* length of the arbitrary tagged-id strings tried on getArtworkDetails
MaxIdLen == 4
\* length of the native ids tried on getArtworkDetails
MaxNativeLen == 3
\* records an adapter returns to one call of the facade in the facade runs
MaxFetched == 2

\* ------------------------------------------------------------------ helpers

\* the cut that keeps everything
MinKeepAll(a, b) == b

Min(a, b) == IF a < b THEN a ELSE b

\* rounding down instead of up
CeilRoundedDown(a, b) == a \div b

\* Math.ceil(a / b) for a >= 0, b > 0
Ceil(a, b) == (a + b - 1) \div b

Range(s) == {s[i] : i \in 1..Len(s)}

\* all sequences over S of length at most n
SeqsUpTo(S, n) == UNION {[1..k -> S] : k \in 0..n}

\* the merge without the filter on existing ids
WithoutIdsKeepAll(s, ids) == s

\* newArtworks.filter((art) => !existingIds.has(art.id))
RECURSIVE WithoutIds(_, _)
WithoutIds(s, ids) ==
    IF s = <<>> THEN <<>>
    ELSE (IF Head(s).id \in ids THEN <<>> ELSE <<Head(s)>>) \o WithoutIds(Tail(s), ids)

\* arr.sort(() => Math.random() - 0.5): some rearrangement of arr
Shuffles(s) ==
    {[i \in 1..Len(s) |-> s[p[i]]] : p \in Permutations(1..Len(s))}

\* ------------------------------------------------------------------ strings

aicTag == <<"a", "i", "c">>
hamTag == <<"h", "a", "m">>
Dash == "-"

TagOf(source) == IF source = "aic" THEN aicTag ELSE hamTag

\* String.prototype.split("-")
RECURSIVE Split(_)
Split(s) ==
    IF \A i \in 1..Len(s) : s[i] # Dash THEN <<s>>
    ELSE LET i == CHOOSE k \in 1..Len(s) :
                      s[k] = Dash /\ \A j \in 1..(k - 1) : s[j] # Dash
         IN <<SubSeq(s, 1, i - 1)>> \o Split(SubSeq(s, i + 1, Len(s)))

\* Array.prototype.join("-")
RECURSIVE Join(_)
Join(parts) ==
    IF parts = <<>> THEN <<>>
    ELSE IF Len(parts) = 1 THEN parts[1]
    ELSE parts[1] \o <<Dash>> \o Join(Tail(parts))

\* id: `aic-${item.id}`
mapAicToUnified(item) == [id |-> aicTag \o <<Dash>> \o item, source |-> "aic"]

\* aicResponse.data.map((item) => mapAicToUnified(item, ...))
mappedAicOf(data) == [i \in 1..Len(data) |-> mapAicToUnified(data[i])]

\* id: `ham-${item.objectid}`
mapHamToUnified(item) == [id |-> hamTag \o <<Dash>> \o item, source |-> "ham"]

\* hamResponse.records.map(mapHamToUnified)
mappedHamOf(records) == [i \in 1..Len(records) |-> mapHamToUnified(records[i])]

\* ------------------------------------------------------------------ upstream

Sources == {"aic", "ham"}

\* const limit = 10
Limit == 10

\* a rejected promise / a thrown error
Thrown == [ok |-> FALSE]

\* An upstream catalogue: whether EXPO_PUBLIC_HARVARD_API_KEY is set, and per
\* source the number of pages, the records on a page, and whether consecutive
\* pages overlap by one record (the catalogue grew between two requests).
Catalogue(key, aicPages, aicPer, hamPages, hamPer, overlap) ==
    [key |-> key,
     pages |-> [aic |-> aicPages, ham |-> hamPages],
     per |-> [aic |-> aicPer, ham |-> hamPer],
     overlap |-> overlap]

\* the native ids on page p of source s
PageItems(w, s, p) ==
    IF p > w.pages[s] THEN <<>>
    ELSE LET first == (p - 1) * w.per[s] + 1 - (IF w.overlap /\ p > 1 THEN 1 ELSE 0)
         IN [i \in 1..w.per[s] |-> <<ToString(first + i - 1)>>]

\* AicApiResponse: { pagination: { total, total_pages, current_page }, data }
AicApiResponse(w, page) ==
    [ok |-> TRUE,
     data |-> PageItems(w, "aic", page),
     current_page |-> page,
     total_pages |-> w.pages["aic"],
     total |-> w.pages["aic"] * w.per["aic"]]

\* HamApiResponse: { info: { totalrecords, pages, page }, records }
HamApiResponse(w, page) ==
    [ok |-> TRUE,
     records |-> PageItems(w, "ham", page),
     page |-> page,
     pages |-> w.pages["ham"],
     totalrecords |-> w.pages["ham"] * w.per["ham"]]

\* ------------------------------------------------------------------ facade

\* the HAM block without its check of the key
hamRequestedAnyway(source, key) == source \in {"ham", "all"}

\* if (!HAM_API_KEY) { console.warn(...) } else { ... await getHamArtworks(...) }
hamRequested(source, key) == source \in {"ham", "all"} /\ key

\* getArtworks up to the shuffle: aic and ham are what getAicArtworks and
\* getHamArtworks answer (a response, or Thrown) when they are awaited.
getArtworksBody(source, page, limit, key, aic, ham) ==
    LET useAic == source \in {"aic", "all"}
        aicThrows == useAic /\ ~aic.ok
        mappedAic == IF useAic /\ aic.ok THEN mappedAicOf(aic.data) ELSE <<>>
        page1 == IF source = "aic" /\ aic.ok THEN aic.current_page ELSE page
        pages1 == IF source = "aic" /\ aic.ok THEN aic.total_pages ELSE 1
        records1 == IF useAic /\ aic.ok THEN aic.total ELSE 0
        hamCalled == ~aicThrows /\ hamRequested(source, key)
        hamOk == hamCalled /\ ham.ok
        hamThrows == hamCalled /\ ~ham.ok /\ source = "all" /\ Len(mappedAic) = 0
        mappedHam == IF hamOk THEN mappedHamOf(ham.records) ELSE <<>>
        page2 == IF hamOk /\ source = "ham" THEN ham.page ELSE page1
        pages2 == IF hamOk /\ source = "ham" THEN ham.pages ELSE pages1
        records2 == IF ~hamOk THEN records1
                    ELSE IF source = "ham" THEN ham.totalrecords
                    ELSE records1 + ham.totalrecords
    IN IF aicThrows \/ hamThrows
       THEN [ok |-> FALSE, hamCalled |-> hamCalled]
       ELSE [ok |-> TRUE,
             hamCalled |-> hamCalled,
             artworks |-> mappedAic \o mappedHam,
             currentPage |-> IF source = "all" THEN 1 ELSE page2,
             totalPages |-> IF source = "all" THEN Ceil(records2, limit) ELSE pages2,
             totalRecords |-> records2]

\* getArtworks: for "all" the list is shuffled and cut to limit
getArtworks(source, page, limit, key, aic, ham) ==
    LET r == getArtworksBody(source, page, limit, key, aic, ham)
    IN IF ~r.ok \/ source # "all" THEN {r}
       ELSE {[r EXCEPT !.artworks = SubSeq(sh, 1, Min(limit, Len(sh)))] :
                sh \in Shuffles(r.artworks)}

InvalidIdFormat == "Invalid prefixed ID format"
UnknownSourceInId == "Unknown source in prefixed ID"
HamKeyMissing == "Harvard API Key is missing. Cannot fetch details."

\* the length check letting a string without separator through
TooFewPartsNone(parts) == Len(parts) < 1

\* if (parts.length < 2)
TooFewParts(parts) == Len(parts) < 2

\* the native id taken as the second part only
nativeIdSecondPart(parts) == parts[2]

\* const id = parts.slice(1).join("-")
nativeIdOf(parts) == Join(Tail(parts))

\* getArtworkDetails: the adapter detail fetches it calls (adapter, id passed),
\* the network requests those issue, and whether it throws before any fetch
\* settles.  getHamArtworkDetails throws without a request when the key is unset.
getArtworkDetails(prefixedId, key) ==
    LET parts == Split(prefixedId)
        source == parts[1]
        id == nativeIdOf(parts)
    IN IF TooFewParts(parts)
       THEN [thrown |-> InvalidIdFormat, calls |-> <<>>, network |-> <<>>]
       ELSE IF source = aicTag
       THEN [thrown |-> "",
             calls |-> <<[adapter |-> "aic", id |-> id]>>,
             network |-> <<[adapter |-> "aic", id |-> id]>>]
       ELSE IF source = hamTag
       THEN [thrown |-> IF key THEN "" ELSE HamKeyMissing,
             calls |-> <<[adapter |-> "ham", id |-> id]>>,
             network |-> IF key THEN <<[adapter |-> "ham", id |-> id]>> ELSE <<>>]
       ELSE [thrown |-> UnknownSourceInId, calls |-> <<>>, network |-> <<>>]

\* ------------------------------------------------------------------ controller

VARIABLES
    artworks,           \* useState<UnifiedArtwork[]>([])
    loading,            \* useState(true)
    error,              \* useState<string | null>(null)
    currentPage,        \* useState(1)
    totalPages,         \* useState(1)
    selectedSource,     \* useState<ApiSource | "all">("all")
    totalRecords,       \* useState(0)
    aicPageForAll,      \* useState(1)
    hamPageForAll,      \* useState(1)
    aicHasMoreForAll,   \* useState(true)
    hamHasMoreForAll,   \* useState(true)
    isLoadingMore,      \* useState(false)
    pendingEffect,      \* the source of a committed render whose effect has not run yet
    inflight,           \* the loadArtworks / handleLoadMore calls suspended at their await
    world,              \* the upstream catalogue and the HAM key of this run
    hamNetwork,         \* history: a request was sent to the HAM list endpoint
    shownFor,           \* history: the source whose initial load filled the list
    run,                \* history: load-more calls made one after the other since an
                        \* initial load whose fetches succeeded; -1 when interrupted
    last,               \* history: the step just taken
    req,                \* facade runs: the call made
    res,                \* facade runs: what it returned
    sortField,          \* useState<"title" | "artist" | null>(null)
    sortDirection,      \* useState<"asc" | "desc">("asc")
    exhibition,         \* ExhibitionProvider: useState<UnifiedArtwork[]>([])
    isLoadedFromStorage,\* ExhibitionProvider: useState(false)
    storage,            \* AsyncStorage: what is stored under EXHIBITION_STORAGE_KEY
    storeOps,           \* the AsyncStorage calls not yet settled, and the mount effect
    reads,              \* history: the getItem calls made
    storeFailed         \* history: a setItem call was rejected

ctl == <<artworks, loading, error, currentPage, totalPages, selectedSource,
         totalRecords, aicPageForAll, hamPageForAll, aicHasMoreForAll,
         hamHasMoreForAll, isLoadingMore>>

vars == <<artworks, loading, error, currentPage, totalPages, selectedSource,
          totalRecords, aicPageForAll, hamPageForAll, aicHasMoreForAll,
          hamHasMoreForAll, isLoadingMore, pendingEffect, inflight, world,
          hamNetwork, shownFor, run, last, req, res,
          sortField, sortDirection,
          exhibition, isLoadedFromStorage, storage, storeOps, reads, storeFailed>>

\* the listing screen's sort controls
sorting == <<sortField, sortDirection>>

\* the favorites provider and its store
favorites == <<exhibition, isLoadedFromStorage, storage, storeOps, reads, storeFailed>>

\* the listing screen's feed and the facade runs
feed == <<artworks, loading, error, currentPage, totalPages, selectedSource,
          totalRecords, aicPageForAll, hamPageForAll, aicHasMoreForAll,
          hamHasMoreForAll, isLoadingMore, pendingEffect, inflight, world,
          hamNetwork, shownFor, run, req, res>>

\* sortField: null
NoSort == "null"

\* AsyncStorage.getItem answers null: nothing stored under the key
Absent == [kind |-> "absent"]

\* JSON.stringify(exhibition), and what JSON.parse makes of it again
Stringified(list) == [kind |-> "array", items |-> list]

\* the load effect of the provider, mounted and not yet run
LoadAtMount == [kind |-> "load", stage |-> "mount", payload |-> <<>>]

\* the sort controls and the favorites provider as constructed, nothing stored
Constructed ==
    /\ sortField = NoSort
    /\ sortDirection = "asc"
    /\ exhibition = <<>>
    /\ isLoadedFromStorage = FALSE
    /\ storage = Absent
    /\ storeOps = <<LoadAtMount>>
    /\ reads = 0
    /\ storeFailed = FALSE

NoError == "null"
NoEffect == "none"
Idle == [op |-> "none"]

\* A suspended call.  aic / ham: "none" (no request of this call to that
\* source), "pending", "ok" or "fail" (the request settled).  The page fields
\* are the values of the closure the call was made from.
Op(kind, source, page, aicPage, hamPage, aicHas, hamHas, aicSt, hamSt) ==
    [kind |-> kind, source |-> source, page |-> page,
     aicPage |-> aicPage, hamPage |-> hamPage, aicHas |-> aicHas, hamHas |-> hamHas,
     aic |-> aicSt, ham |-> hamSt]

NoOp == Op("none", "all", 1, 1, 1, TRUE, TRUE, "none", "none")

Step(ev, op, prev, batch) == [ev |-> ev, op |-> op, prev |-> prev, batch |-> batch]

\* the call going on as soon as one of its requests has settled
PendingFirstOnly(o) == o.aic = "pending" /\ o.ham = "pending"

\* await Promise.allSettled(...): the call waits while any request is pending
Pending(o) == o.aic = "pending" \/ o.ham = "pending"

\* a call resuming only when none of its requests failed
ReadyUnlessFailed ==
    {i \in 1..Len(inflight) :
        ~Pending(inflight[i]) /\ inflight[i].aic # "fail" /\ inflight[i].ham # "fail"}

\* a call whose awaited promises have all settled resumes before any other task
Ready == {i \in 1..Len(inflight) : ~Pending(inflight[i])}

Remove(s, i) == SubSeq(s, 1, i - 1) \o SubSeq(s, i + 1, Len(s))

\* the adapter answering with the first page whatever page was asked for
AnswerFirstPage(o, s, p) ==
    IF o[s] # "ok" THEN Thrown
    ELSE IF s = "aic" THEN AicApiResponse(world, 1) ELSE HamApiResponse(world, 1)

\* what the adapter of source s answered to call o for page p
Answer(o, s, p) ==
    IF o[s] # "ok" THEN Thrown
    ELSE IF s = "aic" THEN AicApiResponse(world, p) ELSE HamApiResponse(world, p)

\* the comparison with its operands swapped
HasMoreSwapped(response) == response.totalPages < response.currentPage

\* pagination.currentPage < pagination.totalPages
HasMore(response) == response.currentPage < response.totalPages

\* the cursor left on the page just fetched
NextPageSame(response) == response.currentPage

\* pagination.currentPage + 1
NextPage(response) == response.currentPage + 1

\* which of the three screens the component renders
View ==
    IF loading /\ artworks = <<>> THEN "loading"
    ELSE IF error # NoError /\ artworks = <<>> THEN "error"
    ELSE "list"

HarvardKeyError == "Harvard API Key is missing. Check .env and restart."

\* the source button is rendered and not disabled
SourceButtonEnabled(source) ==
    /\ source # selectedSource
    /\ \/ View = "error"
       \/ /\ View = "list"
          /\ ~loading
          /\ source = "ham" => error # HarvardKeyError

\* calls counted by run
MaxRun == 4

\* the guard letting one page too many through
NoMorePagesOffByOne(page, pages) == page > pages

\* if (currentPage >= totalPages) { return; }
NoMorePages(page, pages) == page >= pages

AicError == "AIC API error!"
AicInitError == "Failed to load data from AIC."
HamInitError == "Failed to load data from Harvard. "
NoSourceError == "Failed to fetch initial data from any source."
LoadMoreError == "Failed to load more artworks."

\* the catalogues tried: both sources with MaxPages pages (AIC pages of PerPage
\* records, HAM pages of one), with and without the HAM key, with and without
\* overlapping pages; and AIC alone with one page of five records, no HAM key
Worlds ==
    {Catalogue(key, MaxPages, PerPage, MaxPages, 1, overlap) :
        key \in BOOLEAN, overlap \in BOOLEAN}
    \cup {Catalogue(FALSE, 1, 5, 1, 1, FALSE)}

ResetAllCursors ==
    /\ aicPageForAll' = 1
    /\ hamPageForAll' = 1
    /\ aicHasMoreForAll' = TRUE
    /\ hamHasMoreForAll' = TRUE

\* loadArtworks(source, 1) up to its await; fromEffect: called by the
\* selectedSource effect, after the effect's own resets
LoadArtworks(source, fromEffect) ==
    LET aicSt == IF source \in {"aic", "all"} THEN "pending" ELSE "none"
        hamSt == IF source = "aic" THEN "none"
                 ELSE IF source = "ham"
                 THEN (IF hamRequested("ham", world.key) THEN "pending" ELSE "none")
                 ELSE (IF world.key /\ hamRequested("ham", world.key)
                       THEN "pending" ELSE "none")
        o == Op("init", source, 1, 1, 1, TRUE, TRUE, aicSt, hamSt)
    IN /\ Len(inflight) < MaxInFlight
       /\ loading' = TRUE
       /\ isLoadingMore' = FALSE
       /\ error' = NoError
       /\ artworks' = <<>>
       /\ currentPage' = IF fromEffect THEN 1 ELSE currentPage
       /\ IF fromEffect \/ source = "all"
          THEN ResetAllCursors
          ELSE UNCHANGED <<aicPageForAll, hamPageForAll, aicHasMoreForAll, hamHasMoreForAll>>
       /\ UNCHANGED <<totalPages, totalRecords>>
       /\ inflight' = Append(inflight, o)
       /\ hamNetwork' = (hamNetwork \/ hamSt = "pending")
       /\ shownFor' = "none"
       /\ run' = -1

\* useEffect(() => { ...; loadArtworks(selectedSource, 1) }, [selectedSource])
SourceEffect ==
    /\ pendingEffect # NoEffect
    /\ Ready = {}
    /\ LoadArtworks(pendingEffect, TRUE)
    /\ pendingEffect' = NoEffect
    /\ last' = Step("effect", NoOp, <<>>, <<>>)
    /\ UNCHANGED <<selectedSource, world, req, res,
                 sorting, favorites>>

\* handleSourceChange(newSource), from an enabled source button.  A press that
\* comes before the effect of the previous render has run makes that effect run
\* first (for the source it was rendered with).
HandleSourceChange(newSource) ==
    /\ Ready = {}
    /\ SourceButtonEnabled(newSource)
    /\ newSource # selectedSource
    /\ selectedSource' = newSource
    /\ pendingEffect' = newSource
    /\ IF pendingEffect = NoEffect
       THEN /\ currentPage' = 1
            /\ UNCHANGED <<artworks, loading, error, totalPages, totalRecords,
                           aicPageForAll, hamPageForAll, aicHasMoreForAll,
                           hamHasMoreForAll, isLoadingMore, inflight, hamNetwork,
                           shownFor>>
            /\ run' = -1
       ELSE LoadArtworks(pendingEffect, TRUE)
    /\ last' = Step("sourceChange", NoOp, <<>>, <<>>)
    /\ UNCHANGED <<world, req, res,
                 sorting, favorites>>

\* <Button title="Retry" onPress={() => loadArtworks(selectedSource, 1)} />
Retry ==
    /\ View = "error"
    /\ pendingEffect = NoEffect
    /\ Ready = {}
    /\ LoadArtworks(selectedSource, FALSE)
    /\ last' = Step("retry", NoOp, <<>>, <<>>)
    /\ UNCHANGED <<selectedSource, pendingEffect, world, req, res,
                 sorting, favorites>>

\* a handleLoadMore call that returns at one of its guards
LoadMoreDropped ==
    /\ UNCHANGED <<ctl, inflight, hamNetwork>>
    /\ last' = Step("loadMoreDropped", NoOp, <<>>, <<>>)

\* the request made whether or not the source has more
FetchStatusAlways(hasMore) == "pending"

\* if (aicHasMoreForAll) { promises.push(getArtworks("aic", aicPageForAll, limit)) }
FetchStatus(hasMore) == IF hasMore THEN "pending" ELSE "none"

\* handleLoadMore, "all" branch, up to its await
LoadMoreAll ==
    LET aicSt == FetchStatus(aicHasMoreForAll)
        hamSt == IF world.key /\ hamRequested("ham", world.key)
                 THEN FetchStatus(hamHasMoreForAll) ELSE "none"
        o == Op("more", "all", 1, aicPageForAll, hamPageForAll,
                aicHasMoreForAll, hamHasMoreForAll, aicSt, hamSt)
    IN IF ~aicHasMoreForAll /\ ~hamHasMoreForAll
       THEN LoadMoreDropped
       ELSE /\ hamHasMoreForAll' =
                  IF hamHasMoreForAll /\ ~world.key THEN FALSE ELSE hamHasMoreForAll
            /\ UNCHANGED <<artworks, loading, error, currentPage, totalPages,
                           selectedSource, totalRecords, aicPageForAll, hamPageForAll,
                           aicHasMoreForAll>>
            /\ hamNetwork' = (hamNetwork \/ hamSt = "pending")
            /\ IF aicSt = "none" /\ hamSt = "none"
               THEN /\ isLoadingMore' = FALSE
                    /\ UNCHANGED inflight
                    /\ last' = Step("loadMoreNothing", NoOp, <<>>, <<>>)
               ELSE /\ Len(inflight) < MaxInFlight
                    /\ isLoadingMore' = TRUE
                    /\ inflight' = Append(inflight, o)
                    /\ last' = Step("loadMore", o, <<>>, <<>>)

\* handleLoadMore, single-source branch, up to its await
LoadMoreSingle ==
    LET nextPage == currentPage + 1
        aicSt == IF selectedSource = "aic" THEN "pending" ELSE "none"
        hamSt == IF selectedSource = "ham" /\ hamRequested("ham", world.key)
                 THEN "pending" ELSE "none"
        o == Op("more", selectedSource, nextPage, 1, 1, TRUE, TRUE, aicSt, hamSt)
    IN IF NoMorePages(currentPage, totalPages)
       THEN LoadMoreDropped
       ELSE /\ Len(inflight) < MaxInFlight
            /\ isLoadingMore' = TRUE
            /\ UNCHANGED <<artworks, loading, error, currentPage, totalPages,
                           selectedSource, totalRecords, aicPageForAll, hamPageForAll,
                           aicHasMoreForAll, hamHasMoreForAll>>
            /\ inflight' = Append(inflight, o)
            /\ hamNetwork' = (hamNetwork \/ hamSt = "pending")
            /\ last' = Step("loadMore", o, <<>>, <<>>)

\* handleLoadMore: the list's onEndReached / onScroll
HandleLoadMore ==
    /\ View = "list"
    /\ pendingEffect = NoEffect
    /\ Ready = {}
    /\ IF isLoadingMore \/ loading THEN LoadMoreDropped
       ELSE IF selectedSource = "all" THEN LoadMoreAll
       ELSE LoadMoreSingle
    /\ run' = IF run >= 0 /\ inflight = <<>> THEN Min(run + 1, MaxRun) ELSE -1
    /\ UNCHANGED <<pendingEffect, world, shownFor, req, res,
                 sorting, favorites>>

\* a request to the list endpoint of source s settles
Settle(i, s, outcome) ==
    /\ pendingEffect = NoEffect
    /\ Ready = {}
    /\ inflight[i][s] = "pending"
    /\ inflight' = [inflight EXCEPT ![i][s] = outcome]
    /\ last' = Step("settle", NoOp, <<>>, <<>>)
    /\ UNCHANGED <<ctl, pendingEffect, world, hamNetwork, shownFor, run, req, res,
                 sorting, favorites>>

\* loadArtworks from its await on, source "aic" or "ham"
InitSingleDone(o) ==
    \E r \in getArtworks(o.source, o.page, Limit, world.key,
                         Answer(o, "aic", o.page), Answer(o, "ham", o.page)) :
        /\ IF r.ok
           THEN /\ artworks' = r.artworks
                /\ totalPages' = r.totalPages
                /\ currentPage' = r.currentPage
                /\ totalRecords' = r.totalRecords
                /\ ResetAllCursors
                /\ UNCHANGED error
                /\ shownFor' = o.source
           ELSE /\ error' = AicError
                /\ artworks' = <<>>
                /\ totalPages' = 1
                /\ currentPage' = 1
                /\ totalRecords' = 0
                /\ UNCHANGED <<aicPageForAll, hamPageForAll, aicHasMoreForAll,
                               hamHasMoreForAll>>
                /\ shownFor' = "none"
        /\ loading' = FALSE
        /\ UNCHANGED isLoadingMore
        /\ last' = Step("initDone", o, artworks, IF r.ok THEN r.artworks ELSE <<>>)

\* loadArtworks from its await on, source "all"
InitAllDone(o) ==
    \E aicResult \in getArtworks("aic", 1, Limit, world.key, Answer(o, "aic", 1), Thrown),
       hamValue \in getArtworks("ham", 1, Limit, world.key, Thrown, Answer(o, "ham", 1)) :
        LET hamSkipped == ~world.key
            aicFulfilled == aicResult.ok
            hamFulfilled == ~hamSkipped /\ hamValue.ok
            hamRejected == ~hamSkipped /\ ~hamValue.ok
            combinedArtworks ==
                (IF aicFulfilled THEN aicResult.artworks ELSE <<>>)
                \o (IF hamFulfilled THEN hamValue.artworks ELSE <<>>)
            combinedTotalRecords ==
                (IF aicFulfilled THEN aicResult.totalRecords ELSE 0)
                + (IF hamFulfilled THEN hamValue.totalRecords ELSE 0)
            tempAicHasMore == aicFulfilled /\ HasMore(aicResult)
            tempHamHasMore == hamFulfilled /\ HasMore(hamValue)
            tempAicNextPage == IF aicFulfilled THEN NextPage(aicResult) ELSE 1
            tempHamNextPage == IF hamFulfilled THEN NextPage(hamValue) ELSE 1
            error1 == IF aicFulfilled THEN error ELSE AicInitError
            error2 == IF hamFulfilled THEN (IF aicFulfilled THEN error1 ELSE NoError)
                      ELSE IF hamRejected THEN HamInitError
                      ELSE error1
            throws == ~aicFulfilled /\ hamRejected /\ combinedArtworks = <<>>
        IN \E shuffled \in Shuffles(combinedArtworks) :
            /\ artworks' = IF throws THEN <<>> ELSE shuffled
            /\ totalRecords' = IF throws THEN 0 ELSE combinedTotalRecords
            /\ totalPages' = IF throws THEN 1 ELSE Ceil(combinedTotalRecords, Limit)
            /\ currentPage' = 1
            /\ aicHasMoreForAll' = tempAicHasMore
            /\ hamHasMoreForAll' = tempHamHasMore
            /\ aicPageForAll' = tempAicNextPage
            /\ hamPageForAll' = tempHamNextPage
            /\ error' = IF throws THEN NoSourceError ELSE error2
            /\ loading' = FALSE
            /\ UNCHANGED isLoadingMore
            /\ shownFor' = IF aicFulfilled \/ hamFulfilled THEN "all" ELSE "none"
            /\ last' = Step("initDone", o, artworks, combinedArtworks)

\* the batch put in front of the list
Prepended(prevArtworks, newArtworks) == newArtworks \o prevArtworks

\* setArtworks((prevArtworks) => [...prevArtworks, ...newArtworks])
Appended(prevArtworks, newArtworks) == prevArtworks \o newArtworks

\* handleLoadMore from its await on, "all" branch
LoadMoreAllDone(o) ==
    \E aicResult \in getArtworks("aic", o.aicPage, Limit, world.key,
                                 Answer(o, "aic", o.aicPage), Thrown),
       hamResult \in getArtworks("ham", o.hamPage, Limit, world.key,
                                 Thrown, Answer(o, "ham", o.hamPage)) :
        LET aicFulfilled == o.aic # "none" /\ aicResult.ok
            hamFulfilled == o.ham # "none" /\ hamResult.ok
            newArtworks ==
                (IF aicFulfilled THEN aicResult.artworks ELSE <<>>)
                \o (IF hamFulfilled THEN hamResult.artworks ELSE <<>>)
            stillHasAic == IF aicFulfilled THEN HasMore(aicResult) ELSE o.aicHas
            nextAicPage == IF aicFulfilled THEN NextPage(aicResult) ELSE o.aicPage
            stillHasHam == IF hamFulfilled THEN HasMore(hamResult) ELSE o.hamHas
            nextHamPage == IF hamFulfilled THEN NextPage(hamResult) ELSE o.hamPage
        IN \E shuffled \in Shuffles(newArtworks) :
            /\ artworks' = Appended(artworks, WithoutIds(shuffled, {a.id : a \in Range(artworks)}))
            /\ aicPageForAll' = nextAicPage
            /\ hamPageForAll' = nextHamPage
            /\ aicHasMoreForAll' = stillHasAic
            /\ hamHasMoreForAll' = stillHasHam
            /\ isLoadingMore' = FALSE
            /\ UNCHANGED <<loading, error, currentPage, totalPages, totalRecords>>
            /\ UNCHANGED shownFor
            /\ last' = Step("loadMoreDone", o, artworks, newArtworks)

\* handleLoadMore from its await on, single-source branch
LoadMoreSingleDone(o) ==
    \E response \in getArtworks(o.source, o.page, Limit, world.key,
                                Answer(o, "aic", o.page), Answer(o, "ham", o.page)) :
        /\ IF response.ok
           THEN /\ artworks' = Appended(artworks, response.artworks)
                /\ currentPage' = response.currentPage
                /\ totalPages' = response.totalPages
                /\ totalRecords' = response.totalRecords
                /\ UNCHANGED error
           ELSE /\ error' = LoadMoreError
                /\ UNCHANGED <<artworks, currentPage, totalPages, totalRecords>>
        /\ isLoadingMore' = FALSE
        /\ UNCHANGED <<loading, aicPageForAll, hamPageForAll, aicHasMoreForAll,
                       hamHasMoreForAll, shownFor>>
        /\ last' = Step("loadMoreDone", o, artworks,
                        IF response.ok THEN response.artworks ELSE <<>>)

\* a suspended call resumes once everything it awaits has settled
Resume(i) ==
    /\ i \in Ready
    /\ LET o == inflight[i]
           failed == o.aic = "fail" \/ o.ham = "fail"
       IN /\ IF o.kind = "init"
             THEN (IF o.source = "all" THEN InitAllDone(o) ELSE InitSingleDone(o))
             ELSE (IF o.source = "all" THEN LoadMoreAllDone(o) ELSE LoadMoreSingleDone(o))
          /\ run' = IF o.kind = "init"
                    THEN (IF Len(inflight) = 1 /\ shownFor' = selectedSource /\ ~failed
                          THEN 0 ELSE -1)
                    ELSE (IF failed THEN -1 ELSE run)
    /\ inflight' = Remove(inflight, i)
    /\ UNCHANGED <<selectedSource, pendingEffect, world, hamNetwork, req, res,
                 sorting, favorites>>

\* the useState initial values, the first render committed, its effect due
Mounted ==
    /\ artworks = <<>>
    /\ loading = TRUE
    /\ error = NoError
    /\ currentPage = 1
    /\ totalPages = 1
    /\ selectedSource = "all"
    /\ totalRecords = 0
    /\ aicPageForAll = 1
    /\ hamPageForAll = 1
    /\ aicHasMoreForAll = TRUE
    /\ hamHasMoreForAll = TRUE
    /\ isLoadingMore = FALSE
    /\ pendingEffect = "all"
    /\ inflight = <<>>
    /\ hamNetwork = FALSE
    /\ shownFor = "none"
    /\ run = -1
    /\ last = Step("mount", NoOp, <<>>, <<>>)
    /\ req = Idle
    /\ res = Idle
    /\ Constructed

Init ==
    /\ world \in Worlds
    /\ Mounted

Next ==
    \/ SourceEffect
    \/ \E newSource \in {"all", "aic", "ham"} : HandleSourceChange(newSource)
    \/ Retry
    \/ HandleLoadMore
    \/ \E i \in 1..Len(inflight), s \in Sources, outcome \in {"ok", "fail"} :
          Settle(i, s, outcome)
    \/ \E i \in 1..Len(inflight) : Resume(i)

Spec == Init /\ [][Next]_vars

\* ------------------------------------------------ one request at a time

\* a source button pressed when no fetch is outstanding and no effect is due
HandleSourceChangeWhenIdle(newSource) ==
    /\ inflight = <<>>
    /\ pendingEffect = NoEffect
    /\ HandleSourceChange(newSource)

\* the screen used without haste: no response ever arrives for a source the
\* user has left
NextSequential ==
    \/ SourceEffect
    \/ \E newSource \in {"all", "aic", "ham"} : HandleSourceChangeWhenIdle(newSource)
    \/ Retry
    \/ HandleLoadMore
    \/ \E i \in 1..Len(inflight), s \in Sources, outcome \in {"ok", "fail"} :
          Settle(i, s, outcome)
    \/ \E i \in 1..Len(inflight) : Resume(i)

SpecSequential == Init /\ [][NextSequential]_vars

\* React runs a committed effect, every request issued settles, and a call
\* whose awaited promises have settled is resumed by the event loop
Scheduling ==
    /\ WF_vars(SourceEffect)
    /\ WF_vars(\E i \in 1..Len(inflight), s \in Sources, outcome \in {"ok", "fail"} :
                  Settle(i, s, outcome))
    /\ WF_vars(\E i \in 1..Len(inflight) : Resume(i))

SpecSequentialFair == SpecSequential /\ Scheduling

\* ------------------------------------------------ scrolling "all" to its end

\* both keys set, each source of one to MaxPages pages, two AIC records and one
\* HAM record to a page
FiniteWorlds ==
    {Catalogue(TRUE, aicPages, 2, hamPages, 1, overlap) :
        aicPages \in 1..MaxPages, hamPages \in 1..MaxPages, overlap \in BOOLEAN}

InitScroll ==
    /\ world \in FiniteWorlds
    /\ Mounted

\* the user stays in "all" and every request succeeds
NextScroll ==
    \/ SourceEffect
    \/ HandleLoadMore
    \/ \E i \in 1..Len(inflight), s \in Sources : Settle(i, s, "ok")
    \/ \E i \in 1..Len(inflight) : Resume(i)

\* the list's onEndReached keeps firing while the user scrolls
SpecScroll == InitScroll /\ [][NextScroll]_vars /\ Scheduling /\ WF_vars(HandleLoadMore)

\* ------------------------------------------------ single-source pagination

\* an upstream of three pages of Limit records per source, pages not overlapping
ThreePages(key) == Catalogue(key, 3, Limit, 3, Limit, FALSE)

\* The screen after the first ("all") load got nothing from either source and
\* the user pressed a single source's button: the render for that source is
\* committed, its effect has not run.
InitSingle ==
    \E key \in BOOLEAN, source \in Sources :
        /\ world = ThreePages(key)
        /\ artworks = <<>>
        /\ loading = FALSE
        /\ error = (IF key THEN NoError ELSE AicInitError)
        /\ currentPage = 1
        /\ totalPages = 0
        /\ selectedSource = source
        /\ totalRecords = 0
        /\ aicPageForAll = 1
        /\ hamPageForAll = (IF key THEN 2 ELSE 1)
        /\ aicHasMoreForAll = FALSE
        /\ hamHasMoreForAll = FALSE
        /\ isLoadingMore = FALSE
        /\ pendingEffect = source
        /\ inflight = <<>>
        /\ hamNetwork = key
        /\ shownFor = (IF key THEN "all" ELSE "none")
        /\ run = -1
        /\ last = Step("sourceChange", NoOp, <<>>, <<>>)
        /\ req = Idle
        /\ res = Idle
        /\ Constructed

\* the user stays within the two single sources
NextSingle ==
    \/ SourceEffect
    \/ \E newSource \in Sources : HandleSourceChange(newSource)
    \/ Retry
    \/ HandleLoadMore
    \/ \E i \in 1..Len(inflight), s \in Sources, outcome \in {"ok", "fail"} :
          Settle(i, s, outcome)
    \/ \E i \in 1..Len(inflight) : Resume(i)

SpecSingle == InitSingle /\ [][NextSingle]_vars

\* ------------------------------------------------------------ facade calls

\* the upstreams a facade call meets: up to MaxFetched records on a page
ApiWorlds ==
    {Catalogue(key, MaxPages, n, MaxPages, m, FALSE) :
        key \in BOOLEAN, n \in 0..MaxFetched, m \in 0..MaxFetched}

Alphabet == {"a", "i", "c", "h", "m", Dash, "7"}

\* tagged ids: every string over Alphabet up to MaxIdLen characters, and every
\* "aic-..." / "ham-..." with up to MaxNativeLen characters of {"7", "-", "a"}
DetailIds ==
    SeqsUpTo(Alphabet, MaxIdLen)
    \cup {TagOf(source) \o <<Dash>> \o native :
             source \in Sources, native \in SeqsUpTo({"7", Dash, "a"}, MaxNativeLen)}

\* getArtworkDetails(id)
DetailRequests == {[op |-> "getArtworkDetails", id |-> id] : id \in DetailIds}

\* the page sizes a caller asks for: the screen's, and two small ones
PageSizes == {1, 3, Limit}

\* const aicLimit = source === "all" ? Math.ceil(limit * 0.6) : limit
AdapterLimit(source, limit) == IF source = "all" THEN Ceil(limit * 6, 10) ELSE limit

\* getArtworks(source, page, limit) with each adapter answering or throwing
ListRequests ==
    {[op |-> "getArtworks",
      call |-> Op("facade", source, page, 1, 1, TRUE, TRUE, aicSt, hamSt),
      limit |-> limit] :
        source \in {"all", "aic", "ham"}, page \in 1..MaxPages,
        aicSt \in {"ok", "fail"}, hamSt \in {"ok", "fail"}, limit \in PageSizes}

\* a detail call meets no list page: one catalogue per key is enough for it
InitApi ==
    /\ world \in ApiWorlds
    /\ req \in DetailRequests \cup ListRequests
    /\ req.op = "getArtworkDetails" => world.per = [aic |-> 0, ham |-> 0]
    \* an upstream answers no more records than the adapter asked it for
    /\ req.op = "getArtworks" =>
          \A s \in Sources : world.per[s] <= AdapterLimit(req.call.source, req.limit)
    /\ res = Idle
    /\ artworks = <<>>
    /\ loading = TRUE
    /\ error = NoError
    /\ currentPage = 1
    /\ totalPages = 1
    /\ selectedSource = "all"
    /\ totalRecords = 0
    /\ aicPageForAll = 1
    /\ hamPageForAll = 1
    /\ aicHasMoreForAll = TRUE
    /\ hamHasMoreForAll = TRUE
    /\ isLoadingMore = FALSE
    /\ pendingEffect = NoEffect
    /\ inflight = <<>>
    /\ hamNetwork = FALSE
    /\ shownFor = "none"
    /\ run = -1
    /\ last = Step("mount", NoOp, <<>>, <<>>)
    /\ Constructed

\* a caller awaits getArtworkDetails(req.id)
CallGetArtworkDetails ==
    /\ req.op = "getArtworkDetails"
    /\ res = Idle
    /\ res' = [op |-> "getArtworkDetails", out |-> getArtworkDetails(req.id, world.key)]
    /\ UNCHANGED <<ctl, pendingEffect, inflight, world, hamNetwork, shownFor, run,
                   last, req, sorting, favorites>>

\* for "all" the facade asks each adapter for its page 1
FacadePage(o) == IF o.source = "all" THEN 1 ELSE o.page

\* a caller awaits getArtworks(source, page, limit)
CallGetArtworks ==
    /\ req.op = "getArtworks"
    /\ res = Idle
    /\ \E r \in getArtworks(req.call.source, req.call.page, req.limit, world.key,
                            Answer(req.call, "aic", FacadePage(req.call)),
                            Answer(req.call, "ham", FacadePage(req.call))) :
          res' = [op |-> "getArtworks", out |-> r]
    /\ UNCHANGED <<ctl, pendingEffect, inflight, world, hamNetwork, shownFor, run,
                   last, req, sorting, favorites>>

NextApi ==
    \/ CallGetArtworkDetails
    \/ CallGetArtworks

SpecApi == InitApi /\ [][NextApi]_vars

\* ------------------------------------------------------------ favorites

\* AsyncStorage calls outstanding at once
MaxStoreOps == 2
\* entries of a stored array
MaxStored == 2

\* UnifiedArtwork: { id, title, artist, imageUrl, source }
Artwork(id, source, title, artist) ==
    [id |-> id, source |-> source, title |-> title, artist |-> artist]

\* the artworks the user may add: two of AIC with the same id (the same artwork
\* as fetched at two times, its title corrected in between) and one of HAM
FavoriteRecords ==
    {Artwork(mapAicToUnified(<<"1">>).id, "aic", "a", "x"),
     Artwork(mapAicToUnified(<<"1">>).id, "aic", "b", "x"),
     Artwork(mapHamToUnified(<<"2">>).id, "ham", "c", "y")}

FavoriteIds == {r.id : r \in FavoriteRecords}

\* what may be stored under the key when the app starts: nothing, a string
\* that is not JSON, JSON that is not an array, or an array of artworks
StoredValues ==
    {Absent, [kind |-> "garbage"], [kind |-> "value"]}
    \cup {Stringified(list) : list \in SeqsUpTo(FavoriteRecords, MaxStored)}

\* the comparison by object instead of by id
SameArtworkObject(item, artwork) == item = artwork

\* prevExhibition.some((item) => item.id === artwork.id)
SameArtwork(item, artwork) == item.id = artwork.id

\* the filter keeping what it should drop
KeptOnRemoveInverted(item, artworkId) == item.id = artworkId

\* prevExhibition.filter((item) => item.id !== artworkId)
KeptOnRemove(item, artworkId) == item.id # artworkId

\* exhibition.some((item) => item.id === artworkId)
isArtworkInExhibition(artworkId) ==
    \E i \in 1..Len(exhibition) : exhibition[i].id = artworkId

\* a step of the favorites provider: what the collection was, what the call
\* was given or answered
FavStep(ev, arg) == Step(ev, NoOp, exhibition, <<arg>>)

\* AsyncStorage.setItem(EXHIBITION_STORAGE_KEY, JSON.stringify(exhibition))
SaveOp(list) == [kind |-> "save", stage |-> "setItem", payload |-> list]

\* the save effect after a render with a new exhibition or a new loaded flag
saveExhibition(ops, list, loaded) == IF loaded THEN Append(ops, SaveOp(list)) ELSE ops

\* where loadExhibition stands
LoadStage ==
    IF storeOps # <<>> /\ storeOps[1].kind = "load" THEN storeOps[1].stage ELSE "done"

\* the corrupt blob left where it is
AfterReadKeepCorrupt(value) ==
    IF value = Absent THEN "finally"
    ELSE IF value.kind = "array" THEN "setExhibition"
    ELSE "finally"

\* loadExhibition after getItem answered value: what it does next
AfterRead(value) ==
    IF value = Absent THEN "finally"
    ELSE IF value.kind = "garbage" THEN "removeItemAfterParseError"
    ELSE IF value.kind = "array" THEN "setExhibition"
    ELSE "removeItemNotArray"

\* finally { setIsLoadedFromStorage(true) }, and the save effect it triggers
LoadFinally(list) ==
    /\ isLoadedFromStorage' = TRUE
    /\ exhibition' = list
    /\ storeOps' = saveExhibition(Tail(storeOps), list, TRUE)

\* useEffect(() => { loadExhibition() }, []) up to its getItem
LoadExhibition ==
    /\ LoadStage = "mount"
    /\ storeOps' = [storeOps EXCEPT ![1].stage = "getItem"]
    /\ reads' = reads + 1
    /\ last' = FavStep("loadExhibition", "mount")
    /\ UNCHANGED <<feed, sorting, exhibition, isLoadedFromStorage, storage, storeFailed>>

\* getItem settles and loadExhibition runs to its next await or to its end
GetItemSettle(outcome) ==
    /\ LoadStage = "getItem"
    /\ LET next == IF outcome = "fail" THEN "finally" ELSE AfterRead(storage)
       IN /\ IF next = "finally" THEN LoadFinally(exhibition)
             ELSE IF next = "setExhibition" THEN LoadFinally(storage.items)
             ELSE /\ storeOps' = [storeOps EXCEPT ![1].stage = next]
                  /\ UNCHANGED <<exhibition, isLoadedFromStorage>>
          /\ last' = FavStep("getItem", [outcome |-> outcome, value |-> storage])
    /\ UNCHANGED <<feed, sorting, storage, reads, storeFailed>>

\* removeItem settles: a rejection inside the try is caught by the parse-error
\* handler, which calls removeItem again; a rejection there ends the load
RemoveItemSettle(outcome) ==
    /\ LoadStage \in {"removeItemNotArray", "removeItemAfterParseError"}
    /\ IF outcome = "ok"
       THEN /\ storage' = Absent
            /\ LoadFinally(exhibition)
       ELSE /\ UNCHANGED storage
            /\ IF LoadStage = "removeItemNotArray"
               THEN /\ storeOps' = [storeOps EXCEPT ![1].stage = "removeItemAfterParseError"]
                    /\ UNCHANGED <<exhibition, isLoadedFromStorage>>
               ELSE LoadFinally(exhibition)
    /\ last' = FavStep("removeItem", [outcome |-> outcome, value |-> storage])
    /\ UNCHANGED <<feed, sorting, reads, storeFailed>>

\* the add without its check of the ids held
addToExhibitionUnchecked(artwork) ==
    /\ isLoadedFromStorage => Len(storeOps) < MaxStoreOps
    /\ exhibition' = Append(exhibition, artwork)
    /\ storeOps' = saveExhibition(storeOps, exhibition', isLoadedFromStorage)
    /\ last' = FavStep("add", artwork)
    /\ UNCHANGED <<feed, sorting, isLoadedFromStorage, storage, reads, storeFailed>>

\* addToExhibition(artwork), and the save effect when the collection changed
addToExhibition(artwork) ==
    /\ IF \E i \in 1..Len(exhibition) : SameArtwork(exhibition[i], artwork)
       THEN UNCHANGED <<exhibition, storeOps>>
       ELSE /\ isLoadedFromStorage => Len(storeOps) < MaxStoreOps
            /\ exhibition' = Append(exhibition, artwork)
            /\ storeOps' = saveExhibition(storeOps, exhibition', isLoadedFromStorage)
    /\ last' = FavStep("add", artwork)
    /\ UNCHANGED <<feed, sorting, isLoadedFromStorage, storage, reads, storeFailed>>

\* removeFromExhibition(artworkId); filter makes a new array, so the save
\* effect runs whether or not an entry went
removeFromExhibition(artworkId) ==
    /\ isLoadedFromStorage => Len(storeOps) < MaxStoreOps
    /\ exhibition' = SelectSeq(exhibition, LAMBDA item : KeptOnRemove(item, artworkId))
    /\ storeOps' = saveExhibition(storeOps, exhibition', isLoadedFromStorage)
    /\ last' = FavStep("remove", artworkId)
    /\ UNCHANGED <<feed, sorting, isLoadedFromStorage, storage, reads, storeFailed>>

\* a setItem call settles; the store holds what the call that settled wrote
SetItemSettle(i, outcome) ==
    /\ storeOps[i].kind = "save"
    /\ IF outcome = "ok"
       THEN storage' = Stringified(storeOps[i].payload) /\ UNCHANGED storeFailed
       ELSE storeFailed' = TRUE /\ UNCHANGED storage
    /\ storeOps' = Remove(storeOps, i)
    /\ last' = FavStep("setItem", [outcome |-> outcome, value |-> storeOps[i].payload])
    /\ UNCHANGED <<feed, sorting, exhibition, isLoadedFromStorage, reads>>

\* the app starts with whatever an earlier run left in the store
InitFavorites ==
    /\ artworks = <<>>
    /\ loading = TRUE
    /\ error = NoError
    /\ currentPage = 1
    /\ totalPages = 1
    /\ selectedSource = "all"
    /\ totalRecords = 0
    /\ aicPageForAll = 1
    /\ hamPageForAll = 1
    /\ aicHasMoreForAll = TRUE
    /\ hamHasMoreForAll = TRUE
    /\ isLoadingMore = FALSE
    /\ pendingEffect = "all"
    /\ inflight = <<>>
    /\ world = Catalogue(TRUE, MaxPages, PerPage, MaxPages, 1, FALSE)
    /\ hamNetwork = FALSE
    /\ shownFor = "none"
    /\ run = -1
    /\ last = Step("mount", NoOp, <<>>, <<>>)
    /\ req = Idle
    /\ res = Idle
    /\ sortField = NoSort
    /\ sortDirection = "asc"
    /\ exhibition = <<>>
    /\ isLoadedFromStorage = FALSE
    /\ storage \in StoredValues
    /\ storeOps = <<LoadAtMount>>
    /\ reads = 0
    /\ storeFailed = FALSE

NextFavorites ==
    \/ LoadExhibition
    \/ \E outcome \in {"ok", "fail"} : GetItemSettle(outcome)
    \/ \E outcome \in {"ok", "fail"} : RemoveItemSettle(outcome)
    \/ \E artwork \in FavoriteRecords : addToExhibition(artwork)
    \/ \E artworkId \in FavoriteIds : removeFromExhibition(artworkId)
    \/ \E i \in 1..Len(storeOps), outcome \in {"ok", "fail"} : SetItemSettle(i, outcome)

SpecFavorites == InitFavorites /\ [][NextFavorites]_vars

\* ----------------------------------------------------------------- sorting

\* entries of the accumulated list that is sorted
MaxSorted == 3

\* a title or artist that is null
NullField == <<"null">>

\* UTF-16 code units of the characters used
CodeUnit(c) == CASE c = "A" -> 65 [] c = "B" -> 66 [] c = "a" -> 97 [] c = "b" -> 98

\* the field compared as written
ToLowerCaseNot(str) == str

\* String.prototype.toLowerCase
ToLowerCase(str) ==
    [i \in 1..Len(str) |-> CASE str[i] = "A" -> "a" [] str[i] = "B" -> "b" [] OTHER -> str[i]]

\* a[sortField] || ""
OrEmpty(value) == IF value = NullField THEN <<>> ELSE value

\* (a[sortField] || "").toLowerCase()
SortKey(a, field) == ToLowerCase(OrEmpty(a[field]))

\* fieldA < fieldB on strings: by code unit, a proper prefix first
RECURSIVE StringLess(_, _)
StringLess(s, t) ==
    IF t = <<>> THEN FALSE
    ELSE IF s = <<>> THEN TRUE
    ELSE IF CodeUnit(Head(s)) # CodeUnit(Head(t)) THEN CodeUnit(Head(s)) < CodeUnit(Head(t))
    ELSE StringLess(Tail(s), Tail(t))

\* the comparison with the direction left out
DirectedIgnored(comparison, direction) == comparison

\* sortDirection === "desc" ? comparison * -1 : comparison
Directed(comparison, direction) == IF direction = "desc" THEN comparison * (-1) ELSE comparison

\* the compare function handed to sort
Compare(a, b, field, direction) ==
    LET fieldA == SortKey(a, field)
        fieldB == SortKey(b, field)
        comparison == IF StringLess(fieldB, fieldA) THEN 1
                      ELSE IF StringLess(fieldA, fieldB) THEN -1 ELSE 0
    IN Directed(comparison, direction)

\* Array.prototype.sort, stable (ECMAScript 2019): each entry goes behind the
\* entries before it that do not compare greater
RECURSIVE StableSort(_, _, _)
StableSort(list, field, direction) ==
    IF list = <<>> THEN <<>>
    ELSE LET n == Len(list)
             front == StableSort(SubSeq(list, 1, n - 1), field, direction)
             x == list[n]
             k == Cardinality({i \in 1..Len(front) :
                        \A j \in 1..i : Compare(front[j], x, field, direction) <= 0})
         IN SubSeq(front, 1, k) \o <<x>> \o SubSeq(front, k + 1, Len(front))

\* the list displayed
sortedArtworks(list, field, direction) ==
    IF field = NoSort THEN list ELSE StableSort(list, field, direction)

\* setSortDirection((prev) => (prev === "asc" ? "desc" : "asc"))
Toggled(direction) == IF direction = "asc" THEN "desc" ELSE "asc"

\* the handler dropping the accumulated list as well
handleSortChangeClearing(field) ==
    /\ ~loading
    /\ IF sortField = field
       THEN sortDirection' = Toggled(sortDirection) /\ UNCHANGED sortField
       ELSE sortField' = field /\ sortDirection' = "asc"
    /\ artworks' = <<>>
    /\ last' = Step("handleSortChange", NoOp, <<>>, <<>>)
    /\ UNCHANGED <<loading, error, currentPage, totalPages, selectedSource,
                   totalRecords, aicPageForAll, hamPageForAll, aicHasMoreForAll,
                   hamHasMoreForAll, isLoadingMore, pendingEffect, inflight, world,
                   hamNetwork, shownFor, run, req, res, favorites>>

\* handleSortChange(field), from the Title or Artist button
handleSortChange(field) ==
    /\ ~loading
    /\ IF sortField = field
       THEN sortDirection' = Toggled(sortDirection) /\ UNCHANGED sortField
       ELSE sortField' = field /\ sortDirection' = "asc"
    /\ last' = Step("handleSortChange", NoOp, <<>>, <<>>)
    /\ UNCHANGED <<feed, favorites>>

toggleSortDirection ==
    /\ ~loading
    /\ sortField # NoSort
    /\ sortDirection' = Toggled(sortDirection)
    /\ last' = Step("toggleSortDirection", NoOp, <<>>, <<>>)
    /\ UNCHANGED <<feed, favorites, sortField>>

clearSort ==
    /\ ~loading
    /\ sortField # NoSort
    /\ sortField' = NoSort
    /\ last' = Step("clearSort", NoOp, <<>>, <<>>)
    /\ UNCHANGED <<feed, favorites, sortDirection>>

\* the artworks accumulated: titles equal up to case, a missing title, a
\* missing and an empty artist
SortRecords ==
    {Artwork(mapAicToUnified(<<"1">>).id, "aic", <<"b">>, <<"a">>),
     Artwork(mapAicToUnified(<<"2">>).id, "aic", <<"A">>, NullField),
     Artwork(mapHamToUnified(<<"3">>).id, "ham", <<"a">>, <<>>),
     Artwork(mapHamToUnified(<<"4">>).id, "ham", NullField, <<"B">>),
     Artwork(mapHamToUnified(<<"5">>).id, "ham", <<"a", "B">>, <<"b">>)}

\* a list has been loaded and is on display
InitSort ==
    /\ artworks \in SeqsUpTo(SortRecords, MaxSorted)
    /\ loading = FALSE
    /\ error = NoError
    /\ currentPage = 1
    /\ totalPages = 1
    /\ selectedSource = "all"
    /\ totalRecords = Len(artworks)
    /\ aicPageForAll = 2
    /\ hamPageForAll = 2
    /\ aicHasMoreForAll = FALSE
    /\ hamHasMoreForAll = FALSE
    /\ isLoadingMore = FALSE
    /\ pendingEffect = NoEffect
    /\ inflight = <<>>
    /\ world = Catalogue(TRUE, 1, PerPage, 1, 1, FALSE)
    /\ hamNetwork = TRUE
    /\ shownFor = "all"
    /\ run = -1
    /\ last = Step("mount", NoOp, <<>>, <<>>)
    /\ req = Idle
    /\ res = Idle
    /\ Constructed

NextSort ==
    \/ \E field \in {"title", "artist"} : handleSortChange(field)
    \/ toggleSortDirection
    \/ clearSort

SpecSort == InitSort /\ [][NextSort]_vars

\* the sort buttons pressed while a single source is browsed, requests in flight
NextSortedFeed ==
    \/ NextSingle
    \/ NextSort

SpecSortedFeed == InitSingle /\ [][NextSortedFeed]_vars

\* ------------------------------------------------------------------ claims

Ids(list) == {a.id : a \in Range(list)}

Count(id, list) == Cardinality({i \in 1..Len(list) : list[i].id = id})

LoadMoresOutstanding == {i \in 1..Len(inflight) : inflight[i].kind = "more"}

\* C1: the response of an initial load issued for source A, arriving when the
\* user has switched to source B and B's initial load has filled the list, is
\* not applied: the list, currentPage, totalPages and totalRecords stay B's.
C1_StaleInitialLoadNotApplied ==
    [][(/\ last'.ev = "initDone"
        /\ last'.op.source # selectedSource
        /\ shownFor = selectedSource)
       => UNCHANGED <<artworks, currentPage, totalPages, totalRecords>>]_vars

\* C2: at most one load-more is outstanding at any time, and a handleLoadMore
\* call made while one is outstanding issues no fetch and changes no state.
C2_OneLoadMoreOutstanding ==
    /\ [](Cardinality(LoadMoresOutstanding) <= 1)
    /\ [][(/\ last'.ev \in {"loadMore", "loadMoreNothing", "loadMoreDropped"}
           /\ LoadMoresOutstanding # {})
          => UNCHANGED <<ctl, inflight>>]_vars

\* C3, C4 and C6 are stated for SpecSequential, where larger catalogues stay
\* tractable; each also holds under Spec, every interleaving of stale responses
\* included, for the catalogues of Worlds.

\* the records source s serves on its first page, and whether that is its last
FirstPageCount(s) == Len(PageItems(world, s, 1))
FirstPageIsLast(s) == 1 >= world.pages[s]

\* C3: in "all" mode, after an initial load where one source fails and the
\* other returns k records, the list has exactly k records and the cursor of
\* the source that answered is exhausted only if its currentPage >= totalPages.
C3_PartialInitialLoad ==
    (last.ev = "initDone" /\ last.op.source = "all") =>
        /\ (last.op.aic = "fail" /\ last.op.ham = "ok") =>
              /\ Len(artworks) = FirstPageCount("ham")
              /\ ~hamHasMoreForAll => FirstPageIsLast("ham")
        /\ (last.op.aic = "ok" /\ last.op.ham = "fail") =>
              /\ Len(artworks) = FirstPageCount("aic")
              /\ ~aicHasMoreForAll => FirstPageIsLast("aic")

C3_Witness ==
    /\ last.ev = "initDone"
    /\ last.op.source = "all"
    /\ last.op.aic = "ok"
    /\ last.op.ham = "fail"
    /\ Len(artworks) = PerPage
    /\ aicHasMoreForAll

\* C4 as claimed: in every source mode, a record returned by a load-more round
\* whose id is already in the list does not add an entry for that id.
C4_DedupEveryMode ==
    last.ev = "loadMoreDone" =>
        \A a \in Range(last.batch) :
            a.id \in Ids(last.prev) => Count(a.id, artworks) = Count(a.id, last.prev)

\* C4 amended: in an "all"-mode load-more round, a returned record whose id is
\* already in the list does not add an entry for that id.
C4_DedupAllMode ==
    (last.ev = "loadMoreDone" /\ last.op.source = "all") =>
        \A a \in Range(last.batch) :
            a.id \in Ids(last.prev) => Count(a.id, artworks) = Count(a.id, last.prev)

C4_Witness ==
    /\ last.ev = "loadMoreDone"
    /\ last.op.source = "all"
    /\ \E a \in Range(last.batch) : a.id \in Ids(last.prev)
    /\ Len(artworks) < Len(last.prev) + Len(last.batch)

\* C6: with no HAM key no request is ever sent to HAM, and in "all" mode the
\* initial load that got AIC's single page yields exactly that page's records
\* (5 in the catalogue of one page of five) with HAM's cursor exhausted.
C6_MissingKeySkipsHam ==
    ~world.key =>
        /\ ~hamNetwork
        /\ (last.ev = "initDone" /\ last.op.source = "all" /\ last.op.aic = "ok") =>
              /\ Len(artworks) = FirstPageCount("aic")
              /\ ~hamHasMoreForAll

C6_Witness ==
    /\ world = Catalogue(FALSE, 1, 5, 1, 1, FALSE)
    /\ last.ev = "loadMoreDropped"
    /\ selectedSource = "all"
    /\ shownFor = "all"
    /\ Len(artworks) = 5
    /\ ~hamHasMoreForAll
    /\ ~hamNetwork

LoadMoreEvents == {"loadMore", "loadMoreNothing", "loadMoreDropped"}

\* the list shown was loaded for the selected source from its upstream
ShownFromUpstream ==
    /\ shownFor = selectedSource
    /\ selectedSource = "aic" \/ world.key

\* C5: single source, pages of 10, upstream of 3 pages: after a completed
\* initial load, three load-more calls made one after the other leave 30
\* records (no id twice), the fourth is dropped, and a handleLoadMore call made
\* when currentPage >= totalPages issues no fetch and changes no state.
C5_SingleSourcePagination ==
    /\ []((run >= 3 /\ ShownFromUpstream) =>
             /\ Len(artworks) = 3 * Limit
             /\ Cardinality(Ids(artworks)) = 3 * Limit)
    /\ []((run >= 4 /\ ShownFromUpstream) => last.ev = "loadMoreDropped")
    /\ [][(/\ last'.ev \in LoadMoreEvents
           /\ selectedSource \in Sources
           /\ currentPage >= totalPages)
          => (last'.ev = "loadMoreDropped" /\ UNCHANGED <<ctl, inflight, hamNetwork>>)]_vars

C5_Witness ==
    /\ run = 4
    /\ ShownFromUpstream
    /\ last.ev = "loadMoreDropped"
    /\ currentPage = 3
    /\ totalPages = 3
    /\ Len(artworks) = 3 * Limit

\* the tagged id starts with tag and the separator
HasTag(id, tag) ==
    /\ Len(id) > Len(tag)
    /\ SubSeq(id, 1, Len(tag) + 1) = tag \o <<Dash>>

\* what follows the tag and the separator
NativePart(id, tag) == SubSeq(id, Len(tag) + 2, Len(id))

\* what precedes the first separator (the whole string when there is none)
FirstPart(id) ==
    LET dashes == {i \in 1..Len(id) : id[i] = Dash}
    IN IF dashes = {} THEN id
       ELSE SubSeq(id, 1, (CHOOSE i \in dashes : \A j \in dashes : i <= j) - 1)

\* C7: for a tagged id "<source>-<nativeId>", source aic or ham,
\* getArtworkDetails calls the detail fetch of that source's adapter only and
\* passes it exactly nativeId, separators inside nativeId included.
C7_DetailsRouting ==
    res.op = "getArtworkDetails" =>
        \A source \in Sources :
            HasTag(req.id, TagOf(source)) =>
                res.out.calls =
                    <<[adapter |-> source, id |-> NativePart(req.id, TagOf(source))]>>

C7_Witness ==
    /\ res.op = "getArtworkDetails"
    /\ HasTag(req.id, hamTag)
    /\ Dash \in Range(NativePart(req.id, hamTag))
    /\ Len(res.out.calls) = 1
    /\ res.out.calls[1].adapter = "ham"

\* C8: a tagged id without separator, or whose part before the first
\* separator is neither "aic" nor "ham", makes getArtworkDetails throw an
\* invalid-id error without calling an adapter or the network.
C8_InvalidIdRejected ==
    (/\ res.op = "getArtworkDetails"
     /\ \/ Dash \notin Range(req.id)
        \/ FirstPart(req.id) \notin {aicTag, hamTag}) =>
        /\ res.out.thrown \in {InvalidIdFormat, UnknownSourceInId}
        /\ res.out.calls = <<>>
        /\ res.out.network = <<>>

C8_Witness ==
    /\ res.op = "getArtworkDetails"
    /\ Dash \notin Range(req.id)
    /\ req.id = aicTag
    /\ res.out.thrown = InvalidIdFormat
    /\ res.out.network = <<>>

\* the records of source s's first page as the facade returns them
FirstPageRecords(s) ==
    IF s = "aic" THEN mappedAicOf(PageItems(world, "aic", 1))
    ELSE mappedHamOf(PageItems(world, "ham", 1))

SameRecords(a, b) == Len(a) = Len(b) /\ Range(a) = Range(b)

\* C9: getArtworks("all", 1, limit) with exactly one of the two sources
\* failing does not fail and returns the other source's records.
C9_OneSourceFailing ==
    (/\ res.op = "getArtworks"
     /\ req.call.source = "all"
     /\ world.key
     /\ req.call.aic # req.call.ham) =>
        /\ res.out.ok
        /\ SameRecords(res.out.artworks,
                       FirstPageRecords(IF req.call.aic = "ok" THEN "aic" ELSE "ham"))

\* C10: getArtworks("all", 1, limit) fails exactly when no source succeeded:
\* AIC failed and HAM failed or was skipped for its missing key.
C10_FailsIffNoSourceSucceeded ==
    (res.op = "getArtworks" /\ req.call.source = "all") =>
        (~res.out.ok <=>
            (req.call.aic = "fail" /\ (req.call.ham = "fail" \/ ~world.key)))

\* the fetch of source s's adapter succeeds / fails (HAM's needs the key)
AdapterAnswered(s) ==
    IF s = "aic" THEN req.call.aic = "ok" ELSE world.key /\ req.call.ham = "ok"

AdapterFailed(s) ==
    IF s = "aic" THEN req.call.aic = "fail" ELSE world.key /\ req.call.ham = "fail"

\* what the adapter of the single source s reported for the page asked
Reported(s) ==
    IF s = "aic"
    THEN LET r == AicApiResponse(world, req.call.page)
         IN <<r.current_page, r.total_pages, r.total>>
    ELSE LET r == HamApiResponse(world, req.call.page)
         IN <<r.page, r.pages, r.totalrecords>>

\* C11: getArtworks with a single source fails whenever that source's adapter
\* fetch fails, never returning a page then; and when the fetch succeeds the
\* returned currentPage, totalPages and totalRecords are the adapter's.
C11_SingleSourcePassThrough ==
    (res.op = "getArtworks" /\ req.call.source \in Sources) =>
        /\ AdapterFailed(req.call.source) => ~res.out.ok
        /\ AdapterAnswered(req.call.source) =>
              /\ res.out.ok
              /\ Reported(req.call.source) =
                    <<res.out.currentPage, res.out.totalPages, res.out.totalRecords>>

\* C12: with no HAM key, getArtworks("ham", page, limit) and
\* getArtworkDetails("ham-<id>") both end in an error, and neither sends a
\* request to HAM.
C12_MissingKeyFailsHam ==
    ~world.key =>
        /\ (res.op = "getArtworks" /\ req.call.source = "ham") =>
              (~res.out.ok /\ ~res.out.hamCalled)
        /\ (res.op = "getArtworkDetails" /\ HasTag(req.id, hamTag)) =>
              (res.out.thrown = HamKeyMissing /\ res.out.network = <<>>)

\* the records the adapters handed to an "all" call, AIC's first
Fetched ==
    (IF AdapterAnswered("aic") THEN FirstPageRecords("aic") ELSE <<>>)
    \o (IF AdapterAnswered("ham") THEN FirstPageRecords("ham") ELSE <<>>)

AllCallReturned == res.op = "getArtworks" /\ req.call.source = "all" /\ res.out.ok

\* C13: a successful getArtworks("all", 1, limit) returns min(limit, number
\* fetched) records, each one of those fetched from AIC or HAM in the call and
\* none twice, whatever the shuffle.
C13_AllTruncatedToPageSize ==
    AllCallReturned =>
        /\ Len(res.out.artworks) <= req.limit
        /\ Range(res.out.artworks) \subseteq Range(Fetched)
        /\ Cardinality(Range(res.out.artworks)) = Len(res.out.artworks)
        /\ Len(res.out.artworks) = (IF req.limit < Len(Fetched) THEN req.limit
                                    ELSE Len(Fetched))

C13_Witness ==
    /\ AllCallReturned
    /\ Len(Fetched) > req.limit
    /\ Len(res.out.artworks) = req.limit
    /\ res.out.artworks[1].source = "ham"

\* the totals reported by the sources that succeeded in an "all" call
SucceededTotal ==
    (IF AdapterAnswered("aic") THEN AicApiResponse(world, 1).total ELSE 0)
    + (IF AdapterAnswered("ham") THEN HamApiResponse(world, 1).totalrecords ELSE 0)

\* C14: a successful getArtworks("all", 1, limit) reports as totalRecords the
\* sum of the totals of the sources that succeeded, and as totalPages the
\* least number of pages of limit records that hold them.
C14_AllTotals ==
    AllCallReturned =>
        /\ res.out.totalRecords = SucceededTotal
        /\ res.out.totalPages * req.limit >= res.out.totalRecords
        /\ (res.out.totalPages - 1) * req.limit < res.out.totalRecords

C14_Witness ==
    /\ AllCallReturned
    /\ AdapterAnswered("aic")
    /\ AdapterAnswered("ham")
    /\ res.out.totalRecords > req.limit
    /\ res.out.totalRecords % req.limit # 0

\* C15: every page getArtworks returns has currentPage >= 1, totalPages >= 1,
\* totalRecords >= 0, and currentPage <= totalPages when totalRecords > 0 (the
\* upstream pages of ApiWorlds all satisfy the same).
C15_PageWellFormed ==
    (res.op = "getArtworks" /\ res.out.ok) =>
        /\ res.out.currentPage >= 1
        /\ res.out.totalPages >= 1
        /\ res.out.totalRecords >= 0
        /\ res.out.totalRecords > 0 => res.out.currentPage <= res.out.totalPages

\* The claims on the favorites provider are checked under SpecFavorites: the
\* app starts over every stored value and the user adds and removes artworks
\* while the calls on the store settle.

\* the entries of list with another id than artworkId, in their order
PositionsKept(list, artworkId) == {i \in 1..Len(list) : list[i].id # artworkId}

\* C16: add(x) when an entry with x's id is present leaves the collection as
\* it was, otherwise the collection is the former one with x appended; either
\* way an entry with x's id is present afterwards, so a second add(x) changes
\* nothing.
C16_AddIdempotent ==
    last.ev = "add" =>
        LET x == last.batch[1]
        IN /\ IF \E i \in 1..Len(last.prev) : last.prev[i].id = x.id
              THEN exhibition = last.prev
              ELSE exhibition = last.prev \o <<x>>
           /\ \E i \in 1..Len(exhibition) : exhibition[i].id = x.id

\* an add of an artwork whose id is held by an entry with another title
C16_Witness ==
    /\ last.ev = "add"
    /\ \E i \in 1..Len(last.prev) :
            last.prev[i].id = last.batch[1].id /\ last.prev[i] # last.batch[1]
    /\ exhibition = last.prev

\* C17: remove(id) leaves exactly the entries with another id, in their
\* order; with no entry of that id the collection is as it was; after
\* remove(id) contains(id) is false and after add(x) contains(x.id) is true.
C17_RemoveKeepsOthers ==
    /\ last.ev = "remove" =>
        LET id == last.batch[1]
            kept == PositionsKept(last.prev, id)
        IN /\ Len(exhibition) = Cardinality(kept)
           /\ \A i \in kept :
                exhibition[Cardinality({j \in kept : j <= i})] = last.prev[i]
           /\ kept = 1..Len(last.prev) => exhibition = last.prev
           /\ ~isArtworkInExhibition(id)
    /\ last.ev = "add" => isArtworkInExhibition(last.batch[1].id)

\* a remove that took the first of two entries
C17_Witness ==
    /\ last.ev = "remove"
    /\ Len(last.prev) = 2
    /\ last.prev[1].id = last.batch[1]
    /\ exhibition = <<last.prev[2]>>

\* the setItem calls not yet settled
SavesOutstanding == {i \in 1..Len(storeOps) : storeOps[i].kind = "save"}

\* C18: after the startup load every add or remove that changes the
\* collection issues a write of the whole collection, and once every write has
\* completed the stored value is the collection in memory, in whatever order
\* the writes completed.
C18_BlobEqualsCollection ==
    /\ (isLoadedFromStorage /\ last.ev \in {"add", "remove"} /\ exhibition # last.prev) =>
            (storeOps # <<>> /\ storeOps[Len(storeOps)] = SaveOp(exhibition))
    /\ (isLoadedFromStorage /\ SavesOutstanding = {} /\ ~storeFailed) =>
            storage = Stringified(exhibition)

\* getItem answered a string that does not parse or does not parse to an array
ReadCorrupt ==
    /\ last.ev = "getItem"
    /\ last.batch[1].outcome = "ok"
    /\ last.batch[1].value.kind \in {"garbage", "value"}

\* C19: on startup the stored value is read once; when it does not parse or
\* is not an array the load puts nothing into the collection and asks the
\* store to remove the value, and nothing is stored once that removal succeeded.
C19_CorruptBlobDiscarded ==
    /\ reads <= 1
    /\ isLoadedFromStorage => reads = 1
    /\ ReadCorrupt =>
            /\ exhibition = last.prev
            /\ LoadStage \in {"removeItemNotArray", "removeItemAfterParseError"}
    /\ last.ev = "removeItem" =>
            /\ exhibition = last.prev
            /\ last.batch[1].outcome = "ok" => storage = Absent

\* the load ended by removing a string that did not parse, the collection empty
C19_Witness ==
    /\ last.ev = "removeItem"
    /\ last.batch[1].outcome = "ok"
    /\ last.batch[1].value.kind = "garbage"
    /\ isLoadedFromStorage
    /\ reads = 1
    /\ exhibition = <<>>
    /\ storage = Absent

\* The claim on sorting is checked under SpecSort: every list of up to
\* MaxSorted artworks on display, the user pressing the sort buttons.

\* list is ordered by the key of field: no entry before one of a lesser key
\* (ascending) or of a greater key (descending)
OrderedBy(list, field, direction) ==
    \A i, j \in 1..Len(list) :
        (i < j /\ SortKey(list[i], field) # SortKey(list[j], field)) =>
            IF direction = "asc"
            THEN StringLess(SortKey(list[i], field), SortKey(list[j], field))
            ELSE StringLess(SortKey(list[j], field), SortKey(list[i], field))

\* the entries of list with how often each occurs
Entries(list) == [x \in Range(list) |-> Cardinality({i \in 1..Len(list) : list[i] = x})]

\* C20: the displayed list sorted again with the same field and direction is
\* itself, and the ascending and the descending sort of the accumulated list
\* put every two entries of unlike keys in opposite orders.
C20_SortIdempotentAndOpposite ==
    sortField # NoSort =>
        LET once == sortedArtworks(artworks, sortField, sortDirection)
            ascending == sortedArtworks(artworks, sortField, "asc")
            descending == sortedArtworks(artworks, sortField, "desc")
        IN /\ sortedArtworks(once, sortField, sortDirection) = once
           /\ Entries(ascending) = Entries(artworks)
           /\ Entries(descending) = Entries(artworks)
           /\ OrderedBy(ascending, sortField, "asc")
           /\ OrderedBy(descending, sortField, "desc")

\* a list sorted descending by title that the sort reordered, two of its
\* titles equal up to case
C20_Witness ==
    /\ sortField = "title"
    /\ sortDirection = "desc"
    /\ sortedArtworks(artworks, sortField, sortDirection) # artworks
    /\ \E i, j \in 1..Len(artworks) :
            /\ i < j
            /\ artworks[i].title # artworks[j].title
            /\ SortKey(artworks[i], "title") = SortKey(artworks[j], "title")

\* The claims on single rounds of the feed are stated on the step that
\* completes the round: last' tells which call resumed and with which outcomes.

\* the "all"-mode cursors
aicCursor == <<aicPageForAll, aicHasMoreForAll>>
hamCursor == <<hamPageForAll, hamHasMoreForAll>>

\* C21: a load-more response that arrives when another source is selected
\* than the one it was requested for, the list of that selection loaded, is
\* not applied: the list, currentPage, totalPages, totalRecords and both
\* cursors stay as they are.
C21_StaleLoadMoreNotApplied ==
    [][(/\ last'.ev = "loadMoreDone"
        /\ last'.op.source # selectedSource
        /\ shownFor = selectedSource)
       => UNCHANGED <<artworks, currentPage, totalPages, totalRecords,
                      aicCursor, hamCursor>>]_vars

\* C22: in an "all"-mode load-more round the cursor of a source whose fetch
\* failed is after the round what it was before, and the round completes with
\* the records of the other source in the list.
C22_FailedSourceCursorKept ==
    [][(/\ last'.ev = "loadMoreDone"
        /\ last'.op.source = "all")
       => /\ last'.op.aic = "fail" => UNCHANGED aicCursor
          /\ last'.op.ham = "fail" => UNCHANGED hamCursor
          /\ ~isLoadingMore'
          /\ Ids(last'.batch) \subseteq Ids(artworks')]_vars

\* the page source s is asked for by the next "all"-mode load-more, whether it
\* has more, and what its upstream reports for that page
CursorPage(s) == IF s = "aic" THEN aicPageForAll ELSE hamPageForAll
CursorHasMore(s) == IF s = "aic" THEN aicHasMoreForAll ELSE hamHasMoreForAll
UpstreamPages(s) == world.pages[s]
UpstreamRecords(s, page) ==
    IF s = "aic" THEN mappedAicOf(PageItems(world, "aic", page))
    ELSE mappedHamOf(PageItems(world, "ham", page))

\* C23: in an "all"-mode load-more round, for each source whose fetch
\* succeeded, the records of the page fetched are in the list, those not there
\* before behind the former entries; the source's next page is one more than
\* before; and it is exhausted exactly when the page fetched is at or past
\* the last page reported.
C23_SucceededSourceAdvances ==
    [][(/\ last'.ev = "loadMoreDone"
        /\ last'.op.source = "all")
       => \A s \in Sources :
            last'.op[s] = "ok" =>
                /\ CursorPage(s)' = CursorPage(s) + 1
                /\ ~CursorHasMore(s)' <=> CursorPage(s) >= UpstreamPages(s)
                /\ \A a \in Range(UpstreamRecords(s, CursorPage(s))) :
                        \/ a.id \in Ids(artworks)
                        \/ \E i \in (Len(artworks) + 1)..Len(artworks') : artworks'[i] = a
                /\ SubSeq(artworks', 1, Len(artworks)) = artworks]_vars

\* a round in which both sources answered their last page
C23_Witness ==
    /\ last.ev = "loadMoreDone"
    /\ last.op.source = "all"
    /\ last.op.aic = "ok"
    /\ last.op.ham = "ok"
    /\ aicPageForAll = last.op.aicPage + 1
    /\ hamPageForAll = last.op.hamPage + 1
    /\ ~aicHasMoreForAll
    /\ Len(artworks) > Len(last.prev)

\* the page of source s the call o asked for
RequestedPage(o, s) ==
    IF o.kind = "init" THEN 1 ELSE IF s = "aic" THEN o.aicPage ELSE o.hamPage

\* the step marks the cursor of source s exhausted
BecomesExhausted(s) == CursorHasMore(s) /\ ~CursorHasMore(s)'

\* C24: the cursor of a source becomes exhausted only by a response of that
\* source that succeeded and was for its last page or beyond, or because the
\* HAM key is missing; a round in which the source's fetch failed (initial
\* load or load-more) does not mark it exhausted.
C24_ExhaustedOnlyOnLastPage ==
    [][\A s \in Sources :
          BecomesExhausted(s) =>
             \/ s = "ham" /\ ~world.key
             \/ /\ last'.ev \in {"initDone", "loadMoreDone"}
                /\ last'.op[s] = "ok"
                /\ RequestedPage(last'.op, s) >= UpstreamPages(s)]_vars

\* the initial load that just completed had all its fetches fail / one of two
InitialLoadDone(source) == last.ev = "initDone" /\ last.op.source = source
FetchFailed(s) == last.op[s] = "fail"

\* the screens of the controller: Failed is the error view, Ready the list
Failed == View = "error"

\* C25: an initial load ends in Failed, the error shown with no records, in
\* single-source mode exactly when its fetch failed and in "all" mode exactly
\* when both fetches failed; in "all" mode with one of the two fetches failed
\* it ends with the list shown.
C25_FailedExactlyOnTotalFailure ==
    /\ \A s \in Sources :
          (InitialLoadDone(s) /\ last.op[s] \in {"ok", "fail"}) =>
                (Failed <=> FetchFailed(s))
    /\ (InitialLoadDone("all") /\ last.op.aic # "none" /\ last.op.ham # "none") =>
          /\ Failed <=> (FetchFailed("aic") /\ FetchFailed("ham"))
          /\ (FetchFailed("aic") # FetchFailed("ham")) => View = "list"

\* list is the beginning of longer
IsPrefix(list, longer) ==
    Len(list) <= Len(longer) /\ SubSeq(longer, 1, Len(list)) = list

\* C26: a load-more that completes never brings up the error screen: every
\* record listed before is still listed, and when one of its fetches failed
\* an error message is set.
C26_LoadMoreNeverFatal ==
    [][last'.ev = "loadMoreDone" =>
          /\ ~Failed => ~Failed'
          /\ IsPrefix(artworks, artworks')
          /\ (last'.op.aic = "fail" \/ last'.op.ham = "fail") => error' # NoError]_vars

\* C27: in single-source mode a load-more whose fetch failed leaves the
\* list, currentPage, totalPages and totalRecords as they were, so that the
\* next load-more asks for the same page.
C27_SingleLoadMoreFailureKeepsState ==
    [][(/\ last'.ev = "loadMoreDone"
        /\ last'.op.source \in Sources
        /\ last'.op[last'.op.source] = "fail")
       => UNCHANGED <<artworks, currentPage, totalPages, totalRecords>>]_vars

\* C28: in "all" mode with both cursors exhausted a handleLoadMore call
\* returns at once: no request, the list, both cursors and isLoadingMore as
\* they were; and no "all"-mode load-more requests a source whose cursor is
\* exhausted.
C28_ExhaustedLoadMoreIsNoOp ==
    [][(last'.ev \in LoadMoreEvents /\ selectedSource = "all") =>
          /\ (~aicHasMoreForAll /\ ~hamHasMoreForAll) =>
                /\ last'.ev = "loadMoreDropped"
                /\ UNCHANGED <<ctl, inflight, hamNetwork>>
          /\ last'.ev = "loadMore" =>
                /\ last'.op.aic = "pending" => aicHasMoreForAll
                /\ last'.op.ham = "pending" => hamHasMoreForAll]_vars

\* the list of "all" shown, both sources exhausted, and a load-more dropped
C28_Witness ==
    /\ last.ev = "loadMoreDropped"
    /\ selectedSource = "all"
    /\ world.key
    /\ ~aicHasMoreForAll
    /\ ~hamHasMoreForAll
    /\ ~loading
    /\ ~isLoadingMore
    /\ inflight = <<>>
    /\ Len(artworks) > PerPage

\* what a step put behind the former list
AddedBy(prev, list) == SubSeq(list, Len(prev) + 1, Len(list))

\* C29: every load-more that completes, in either mode, leaves the list it
\* found as the beginning of the new list, entry for entry, and what follows
\* are records of the batch just fetched, no more than the batch holds.
C29_LoadMoreKeepsPrefix ==
    [][last'.ev = "loadMoreDone" =>
          /\ IsPrefix(artworks, artworks')
          /\ Range(AddedBy(artworks, artworks')) \subseteq Range(last'.batch)
          /\ Len(artworks') <= Len(artworks) + Len(last'.batch)]_vars

\* an "all" round that put two records behind a list of several
C29_Witness ==
    /\ last.ev = "loadMoreDone"
    /\ last.op.source = "all"
    /\ Len(last.prev) >= 2
    /\ Len(last.batch) >= 2
    /\ Len(artworks) = Len(last.prev) + 2
    /\ IsPrefix(last.prev, artworks)

AllRoundsPending ==
    {i \in 1..Len(inflight) : inflight[i].source = "all" /\ Pending(inflight[i])}

\* C31: in "all" mode the merge of a round (initial load or load-more) runs
\* when every fetch the round issued has settled: the completing step finds
\* none of them pending, and while one is pending no step changes the list or
\* a cursor.
C31_MergeAfterAllSettled ==
    [][/\ (last'.ev \in {"initDone", "loadMoreDone"} /\ last'.op.source = "all") =>
             (last'.op.aic # "pending" /\ last'.op.ham # "pending")
       /\ AllRoundsPending # {} => UNCHANGED <<artworks, aicCursor, hamCursor>>]_vars

\* a load-more round of "all": AIC has answered, HAM has not, nothing merged
C31_Witness ==
    /\ last.ev = "settle"
    /\ Len(inflight) = 1
    /\ inflight[1].kind = "more"
    /\ inflight[1].source = "all"
    /\ inflight[1].aic = "ok"
    /\ inflight[1].ham = "pending"
    /\ isLoadingMore
    /\ aicPageForAll = inflight[1].aicPage

\* the key the sort is to go by: the field's letters without regard to case,
\* nothing for a null or missing field
Letter(c) == IF c \in {"a", "A"} THEN 1 ELSE 2
FoldedKey(a, field) ==
    IF a[field] = NullField THEN <<>>
    ELSE [i \in 1..Len(a[field]) |-> Letter(a[field][i])]

\* lexicographic order on such keys
RECURSIVE FoldedLess(_, _)
FoldedLess(s, t) ==
    IF t = <<>> THEN FALSE
    ELSE IF s = <<>> THEN TRUE
    ELSE IF Head(s) # Head(t) THEN Head(s) < Head(t)
    ELSE FoldedLess(Tail(s), Tail(t))

\* the entries of list whose key is k, in their order
OfKey(list, field, k) == SelectSeq(list, LAMBDA a : FoldedKey(a, field) = k)

\* C32: the list displayed holds the entries of the accumulated list, each as
\* often; it is ordered by the chosen field without regard to case, a null
\* field as the empty string, ascending or descending as chosen; entries of
\* equal keys are in the order they have in the accumulated list; with no sort
\* field it is the accumulated list.
C32_SortedViewOrdered ==
    LET view == sortedArtworks(artworks, sortField, sortDirection)
    IN IF sortField = NoSort THEN view = artworks
       ELSE /\ Entries(view) = Entries(artworks)
            /\ Len(view) = Len(artworks)
            /\ \A i, j \in 1..Len(view) :
                  LET ki == FoldedKey(view[i], sortField)
                      kj == FoldedKey(view[j], sortField)
                  IN (i < j /\ ki # kj) =>
                        IF sortDirection = "asc" THEN FoldedLess(ki, kj)
                        ELSE FoldedLess(kj, ki)
            /\ \A a \in Range(artworks) :
                  LET k == FoldedKey(a, sortField)
                  IN OfKey(view, sortField, k) = OfKey(artworks, sortField, k)

\* sorted ascending by artist: a null and an empty artist lead in the order
\* they were fetched in, behind a named artist in the accumulated list
C32_Witness ==
    /\ sortField = "artist"
    /\ sortDirection = "asc"
    /\ Len(artworks) = 3
    /\ artworks[1].artist \notin {NullField, <<>>}
    /\ artworks[2].artist = NullField
    /\ artworks[3].artist = <<>>
    /\ sortedArtworks(artworks, sortField, sortDirection)
            = <<artworks[2], artworks[3], artworks[1]>>

SortEvents == {"handleSortChange", "toggleSortDirection", "clearSort"}

\* C33: choosing a sort field, toggling the direction or clearing the sort
\* leaves the accumulated list, currentPage, totalPages, totalRecords, both
\* cursors, loading and isLoadingMore as they are and issues no request.
C33_SortLeavesFeedAlone ==
    [][last'.ev \in SortEvents =>
          UNCHANGED <<artworks, currentPage, totalPages, totalRecords, aicCursor,
                      hamCursor, loading, isLoadingMore, inflight, hamNetwork>>]_vars

\* the direction toggled while a load-more is in flight
C33_Witness ==
    /\ last.ev = "toggleSortDirection"
    /\ sortDirection = "desc"
    /\ isLoadingMore
    /\ Len(inflight) = 1
    /\ Len(artworks) = Limit

\* C34: assuming every request issued settles, every initial load and every
\* load-more that was started completes and clears its flag (loading,
\* isLoadingMore), whether its requests succeed or fail.
C34_LoadsComplete ==
    /\ loading ~> ~loading
    /\ isLoadingMore ~> ~isLoadingMore

\* a load-more whose request failed has completed and cleared its flag
C34_Witness ==
    /\ last.ev = "loadMoreDone"
    /\ (FetchFailed("aic") \/ FetchFailed("ham"))
    /\ ~isLoadingMore
    /\ ~loading
    /\ inflight = <<>>

BothExhausted == ~aicHasMoreForAll /\ ~hamHasMoreForAll

\* the records of pages 1..totalPages of both sources
AllUpstream ==
    UNION {UNION {Range(UpstreamRecords(s, p)) : p \in 1..UpstreamPages(s)} : s \in Sources}

ListComplete ==
    /\ Ids(artworks) = {a.id : a \in AllUpstream}
    /\ \A a \in Range(artworks) : Count(a.id, artworks) = 1

\* C35: "all" mode, both keys, finite sources, every request succeeding:
\* repeated load-more calls end with both cursors exhausted, and then the list
\* holds every record of pages 1..totalPages of both sources once; each round
\* asks each source that has more for the page after the last one fetched and
\* asks an exhausted source for nothing.
C35_ScrollReachesTheEnd ==
    /\ <>BothExhausted
    /\ [](BothExhausted =>
            /\ ListComplete
            /\ \A s \in Sources : CursorPage(s) = UpstreamPages(s) + 1)
    /\ [][last'.ev = "loadMore" =>
            \A s \in Sources :
                IF CursorHasMore(s)
                THEN /\ last'.op[s] = "pending"
                     /\ RequestedPage(last'.op, s) = CursorPage(s)
                ELSE last'.op[s] = "none"]_vars
    /\ [][last'.ev \in {"initDone", "loadMoreDone"} =>
            \A s \in Sources :
                CursorPage(s)' = RequestedPage(last'.op, s)
                                    + (IF last'.op[s] = "ok" THEN 1 ELSE 0)]_vars

\* AIC of two pages and HAM of one: the second round asked AIC alone and
\* ended the list
C35_Witness ==
    /\ BothExhausted
    /\ last.ev = "loadMoreDone"
    /\ last.op.aic = "ok"
    /\ last.op.ham = "none"
    /\ UpstreamPages("aic") = 2
    /\ UpstreamPages("ham") = 1
    /\ ListComplete
    /\ Len(artworks) = 5

\* the list of a single source is the one on screen
SingleShown == selectedSource \in Sources /\ shownFor = selectedSource

\* C36: with a single source shown, currentPage never exceeds totalPages, and
\* it never decreases while that source stays selected and shown, whatever
\* initial loads, load-more successes and load-more failures have happened
\* (every upstream response having current page <= total pages).
C36_CurrentPageWithinTotal ==
    /\ [](SingleShown => currentPage <= totalPages)
    /\ [][(SingleShown /\ SingleShown' /\ selectedSource' = selectedSource)
             => currentPage' >= currentPage]_vars

\* favorites are stored, and the startup read of them has just been rejected
\* with nothing in memory
ReadOfFavoritesFailed ==
    /\ last.ev = "getItem"
    /\ last.batch[1].outcome = "fail"
    /\ storage # Absent
    /\ storage.kind = "array"
    /\ storage.items # <<>>
    /\ exhibition = <<>>

\* C37: no setItem is issued or completes before the startup read has
\* completed, and the empty collection the provider starts with never replaces
\* favorites that are stored.
C37_NoWriteBeforeRead ==
    /\ [](~isLoadedFromStorage => SavesOutstanding = {})
    /\ [][last'.ev = "setItem" => isLoadedFromStorage]_vars
    /\ [][(ReadOfFavoritesFailed /\ last'.ev = "setItem") => storage' = storage]_vars

\* the step ends the startup load
LoadCompletes == ~isLoadedFromStorage /\ isLoadedFromStorage'

\* C38: whatever add and remove calls came before the startup read completed,
\* the collection the load leaves contains every record that was in memory
\* (added and not removed) when it completed.
C38_NoMutationLostToLoad ==
    [][LoadCompletes => Ids(exhibition) \subseteq Ids(exhibition')]_vars

\* no two entries of the list have the same id
DistinctIds(list) == \A i, j \in 1..Len(list) : list[i].id = list[j].id => i = j

\* what is stored is not an array of entries two of which share an id
BlobDistinct == storage.kind = "array" => DistinctIds(storage.items)

\* C39: the collection starts empty, and no add, no remove and no load of a
\* blob whose entries have distinct ids puts two entries of the same id into a
\* collection that had none; so the collection never holds an id twice.
C39_NoDuplicateFavorites ==
    [][(DistinctIds(exhibition) /\ (last'.ev = "getItem" => BlobDistinct))
          => DistinctIds(exhibition')]_vars

\* two favorites loaded from the store, and an add of the first one's id under
\* another title turned down
C39_Witness ==
    /\ last.ev = "add"
    /\ isLoadedFromStorage
    /\ storage = Stringified(exhibition)
    /\ Len(exhibition) = 2
    /\ DistinctIds(exhibition)
    /\ exhibition = last.prev
    /\ last.batch[1].id = exhibition[1].id
    /\ last.batch[1] # exhibition[1]

====
